---- MODULE Spec2Model ----
(***************************************************************************)
(* A model of iamjinlei/gossh (src/session.go, package gossh, lines        *)
(* 147-561): remote command execution over SSH with sentinel-framed        *)
(* output streaming (Session.Run, Cmd.CombinedOut), recursive upload with  *)
(* the SCP sink protocol (Session.CopyTo) and connection establishment     *)
(* with retry (NewSessionWithRetry).                                       *)
(*                                                                         *)
(* Bytes are one-character strings, byte strings are sequences of them.    *)
(***************************************************************************)
EXTENDS Integers, Sequences, FiniteSets, TLC

VARIABLES
    plan,       \* the Run calls the caller is still going to make, in order
    handles,    \* one record per remote process handle opened by Run
    runLog,     \* the (Cmd, error) pairs returned by the Run calls so far
    job,        \* CopyTo's arguments: the local tree at src, and target
    stack,      \* CopyTo's call stack: one frame per CopyTo / copyPathTo call
    sinks,      \* one record per remote process handle opened by CopyTo
    rfs,        \* the remote file system
    scpLog,     \* every control line and file body sent, with the response read
    copyRes,    \* what CopyTo has returned, if it has
    dial        \* NewSessionWithRetry: its locals, the clock, the dial attempts

runVars == <<plan, handles, runLog>>

scpVars == <<job, stack, sinks, rfs, scpLog, copyRes>>

vars == <<plan, handles, runLog, job, stack, sinks, rfs, scpLog, copyRes, dial>>

-----------------------------------------------------------------------------
(* Bounds of the model *)

\* Most lines a command of the byte-level workload writes to one stream.
MaxLines == 2

\* Run calls the caller makes in the shell-state workload.
RunCalls == 2

\* Lines a command of the backpressure workload writes beyond the channel capacity.
ExtraLines == 2

\* Bound: the bytes of one handle the transport holds before the remote
\* process blocks in its write (the flow-control window of the SSH channel
\* and the pipes behind it), scaled down.
Window == 2048

-----------------------------------------------------------------------------
(* Program constants *)

\* make(chan []byte, 16)
ChanCap == 16

\* bufio.NewReaderSize(r, 1024)
BufSize == 1024

Streams == {"out", "err"}

\* The values time.Now().UnixNano() takes in the model.
Timestamps == {1, 2}

-----------------------------------------------------------------------------
(* Byte strings *)

Min(a, b) == IF a < b THEN a ELSE b

IsPrefix(s, t) == Len(s) <= Len(t) /\ SubSeq(t, 1, Len(s)) = s

DigitChars == <<"0", "1", "2", "3", "4", "5", "6", "7", "8", "9">>

\* fmt's %v / %d of a non-negative integer.
RECURSIVE FormatDec(_)
FormatDec(n) ==
    IF n < 10 THEN <<DigitChars[n + 1]>>
    ELSE FormatDec(n \div 10) \o <<DigitChars[(n % 10) + 1]>>

\* fmt.Sprintf("$$__%v__$$", time.Now().UnixNano())
EndMark(nanos) == <<"$", "$", "_", "_">> \o FormatDec(nanos) \o <<"_", "_", "$", "$">>

\* Index of the first "\n" of b, 0 when there is none.
FirstNL(b) ==
    IF \E i \in 1..Len(b) : b[i] = "\n"
    THEN CHOOSE i \in 1..Len(b) : b[i] = "\n" /\ \A j \in 1..(i - 1) : b[j] # "\n"
    ELSE 0

\* bufio's dropping of the line end: "\n", and a "\r" before it.
DropEOL(line) ==
    LET n == Len(line) IN
    IF n > 0 /\ line[n] = "\n"
    THEN IF n > 1 /\ line[n - 1] = "\r" THEN SubSeq(line, 1, n - 2)
         ELSE SubSeq(line, 1, n - 1)
    ELSE line

\* The lines of a byte string as a line-oriented reader of text sees them: split
\* at "\n", a "\r" before it dropped, a last unterminated fragment being a line.
RECURSIVE LinesOf(_)
LinesOf(b) ==
    IF b = <<>> THEN <<>>
    ELSE LET i == FirstNL(b) IN
         IF i = 0 THEN <<b>>
         ELSE <<DropEOL(SubSeq(b, 1, i))>> \o LinesOf(SubSeq(b, i + 1, Len(b)))

-----------------------------------------------------------------------------
(* bufio.Reader.ReadLine over the bytes that have arrived on a stream.     *)
(* `b` holds the bytes written by the remote side and not yet returned;    *)
(* `end` is "open" while more may come, "eof" after the remote closed the  *)
(* stream, "err" after the transport failed.                               *)

\* ReadLine returns only when a line end is within the buffer, the buffer is
\* full, or the stream has ended; until then the reader task is blocked.
ReadLineReady(b, end) ==
    \/ FirstNL(SubSeq(b, 1, Min(Len(b), BufSize))) > 0
    \/ Len(b) >= BufSize
    \/ end # "open"

\* [data, isPrefix, err, rest]: what br.ReadLine() returns and what stays unread.
ReadLine(b, end) ==
    LET i == FirstNL(SubSeq(b, 1, Min(Len(b), BufSize))) IN
    IF i > 0
    THEN [data |-> DropEOL(SubSeq(b, 1, i)), isPrefix |-> FALSE, err |-> "nil",
          rest |-> SubSeq(b, i + 1, Len(b))]
    ELSE IF Len(b) >= BufSize
    THEN \* buffer full: a "\r" that may belong to a "\r\n" is put back
         LET k == IF b[BufSize] = "\r" THEN BufSize - 1 ELSE BufSize IN
         [data |-> SubSeq(b, 1, k), isPrefix |-> TRUE, err |-> "nil",
          rest |-> SubSeq(b, k + 1, Len(b))]
    ELSE IF Len(b) > 0
    THEN \* the stream ended after an unterminated fragment: returned as a line
         [data |-> b, isPrefix |-> FALSE, err |-> "nil", rest |-> <<>>]
    ELSE [data |-> <<>>, isPrefix |-> FALSE,
          err |-> IF end = "eof" THEN "EOF" ELSE "other", rest |-> <<>>]

\* []byte(fmt.Sprintf("error reading pipe: %v", err))
ErrorLine ==
    <<"e", "r", "r", "o", "r", " ", "r", "e", "a", "d", "i", "n", "g", " ",
      "p", "i", "p", "e", ":", " ">> \o <<"c", "l", "o", "s", "e", "d">>

-----------------------------------------------------------------------------
(* The remote process handle (sessionHandle) *)

\* The steps of newSessionHandle that can fail, and "ok".
HandleOutcomes == {"ok", "NewSession", "StdoutPipe", "StderrPipe", "StdinPipe", "Start"}

\* newSessionHandle ending at `outcome`: whether a channel was opened on the
\* connection, whether it is still open at the return, and the error returned.
NewSessionHandleLeavesOpenLeaky(outcome) == outcome # "NewSession"

NewSessionHandleLeavesOpen(outcome) == outcome = "ok"

newSessionHandle(outcome) ==
    [opened |-> outcome # "NewSession",
     open   |-> NewSessionHandleLeavesOpen(outcome),
     err    |-> IF outcome = "ok" THEN "nil" ELSE outcome]

\* The state of a newly started /bin/bash: every Run starts its own.
FreshShellShared(hs) ==
    IF \E i \in 1..Len(hs) : hs[i].started
    THEN LET i == CHOOSE i \in 1..Len(hs) :
                      hs[i].started /\ \A j \in (i + 1)..Len(hs) : ~hs[j].started
         IN [hs[i].shell EXCEPT !.stdinQ = <<>>]
    ELSE [cwd |-> "home", stdinQ |-> <<>>, cur |-> <<>>, alive |-> TRUE]

FreshShell(hs) == [cwd |-> "home", stdinQ |-> <<>>, cur |-> <<>>, alive |-> TRUE]

IdleReader == [acc |-> <<>>, sendQ |-> <<>>, exit |-> FALSE, done |-> FALSE]

BothStreams(v) == [s \in Streams |-> v]

\* CombinedOut not called yet.  fw: the two forwarding tasks; wg: the
\* sync.WaitGroup counter; closer: the task that waits and closes; got: what
\* the caller has received from the combined channel, each line with the
\* stream it came from.
IdleCombined ==
    [called |-> FALSE,
     fw     |-> BothStreams([pc |-> "idle", line |-> <<>>]),
     wg     |-> 0,
     closer |-> "idle",
     closed |-> FALSE,
     closes |-> 0,
     panic  |-> FALSE,
     got    |-> <<>>]

\* A handle as newSessionHandle returns it, before Run has written anything.
NewHandle(hs, open, nanos, cmd) ==
    [open      |-> open,
     cmd       |-> cmd,
     endMark   |-> EndMark(nanos),
     shell     |-> FreshShell(hs),
     wrote     |-> <<>>,
     sent      |-> BothStreams(<<>>),
     stream    |-> BothStreams(<<>>),
     streamEnd |-> BothStreams("open"),
     started   |-> FALSE,
     rd        |-> BothStreams(IdleReader),
     ch        |-> BothStreams(<<>>),
     chClosed  |-> BothStreams(FALSE),
     got       |-> BothStreams(<<>>),
     gotClosed |-> BothStreams(FALSE),
     comb      |-> IdleCombined]

-----------------------------------------------------------------------------
(* The remote shell.  A command is what the shell does with it: a sequence *)
(* of write(fd, data) calls ("emit"), a change of directory ("cd"), or a   *)
(* print of the working directory ("pwd").                                 *)

Emit(writes) == [kind |-> "emit", writes |-> writes, dir |-> "home"]

Cd(dir) == [kind |-> "cd", writes |-> <<>>, dir |-> dir]

Pwd == [kind |-> "pwd", writes |-> <<>>, dir |-> "home"]

\* What pwd prints for each directory.
DirName(dir) == IF dir = "home" THEN <<"h">> ELSE <<"t">>

\* The three lines Run writes to the shell's stdin:
\*   cmd, echo '<endMark>', echo '<endMark>' >&2
StdinLines(cmd, endMark) ==
    << [kind |-> "cmd",  cmd |-> cmd,     fd |-> "out", text |-> <<>>],
       [kind |-> "echo", cmd |-> Emit(<<>>), fd |-> "out", text |-> endMark],
       [kind |-> "echo", cmd |-> Emit(<<>>), fd |-> "err", text |-> endMark] >>

\* The writes the shell performs for one line of its stdin.
InstrWrites(instr, cwd) ==
    IF instr.kind = "echo" THEN << [fd |-> instr.fd, data |-> instr.text \o <<"\n">>] >>
    ELSE IF instr.cmd.kind = "emit" THEN instr.cmd.writes
    ELSE IF instr.cmd.kind = "pwd" THEN << [fd |-> "out", data |-> DirName(cwd) \o <<"\n">>] >>
    ELSE <<>>

InstrCwd(instr, cwd) ==
    IF instr.kind = "cmd" /\ instr.cmd.kind = "cd" THEN instr.cmd.dir ELSE cwd

\* The bytes of a handle the transport holds unread, both streams together.
Unread(hd) == Len(hd.stream["out"]) + Len(hd.stream["err"])

\* A write of the remote process goes through only while the transport has
\* room for it; until then the process is blocked in the write.
HasRoom(hd, data) == Unread(hd) + Len(data) <= Window

\* The shell of handle h takes one step: the next write of the running
\* command, or the next line of its stdin.
ShellStep(h) ==
    LET sh == handles[h].shell IN
    /\ sh.alive
    /\ sh.cur # <<>> \/ sh.stdinQ # <<>>
    /\ LET fresh == sh.cur = <<>>
           ws    == IF fresh THEN InstrWrites(Head(sh.stdinQ), sh.cwd) ELSE sh.cur
           sh2   == IF fresh
                    THEN [sh EXCEPT !.stdinQ = Tail(@),
                                    !.cwd = InstrCwd(Head(sh.stdinQ), @)]
                    ELSE sh
       IN /\ ws # <<>> => HasRoom(handles[h], Head(ws).data)
          /\ IF ws = <<>>
             THEN handles' = [handles EXCEPT ![h].shell = sh2]
             ELSE handles' = [handles EXCEPT
                      ![h].shell = [sh2 EXCEPT !.cur = Tail(ws)],
                      ![h].stream[Head(ws).fd] = @ \o Head(ws).data,
                      ![h].sent[Head(ws).fd] = @ \o Head(ws).data]
    /\ UNCHANGED <<plan, runLog, scpVars, dial>>

\* How the two streams of a handle can end: each at end-of-stream ("eof") or
\* with a failing read ("err").
StreamEnds == [Streams -> {"eof", "err"}]

\* The remote side of handle h goes away: the shell exits or the transport
\* fails.  Bytes already written stay readable.
Disconnect(h, ends) ==
    /\ handles[h].started
    /\ handles[h].shell.alive
    /\ handles' = [handles EXCEPT ![h].shell.alive = FALSE,
                                  ![h].streamEnd = ends]
    /\ UNCHANGED <<plan, runLog, scpVars, dial>>

-----------------------------------------------------------------------------
(* Session.Run *)

RunOutcomes == HandleOutcomes \cup {"write1", "write2", "write3"}

\* How many of the three stdin writes succeed.
WritesDoneAll(outcome) == 3

WritesDone(outcome) ==
    CASE outcome = "write1" -> 0
      [] outcome = "write2" -> 1
      [] outcome = "write3" -> 2
      [] OTHER -> 3

\* The caller has received everything from the Cmd of handle g (a handle
\* whose Run failed gave no Cmd).
Drained(g) == handles[g].started => \A s \in Streams : handles[g].gotClosed[s]

\* Run(cmd): open a handle running /bin/bash, write the three lines, start
\* the two reader tasks, return the Cmd.
Run ==
    /\ plan # <<>>
    /\ Head(plan).wait => \A g \in DOMAIN handles : Drained(g)
    /\ \E outcome \in RunOutcomes :
        LET call == Head(plan)
            nh   == newSessionHandle(IF outcome \in HandleOutcomes THEN outcome ELSE "ok")
            h    == Len(handles) + 1
            new  == NewHandle(handles, nh.open, call.nanos, call.cmd)
            n    == WritesDone(outcome)
            ok   == outcome = "ok"
        IN /\ plan' = Tail(plan)
           /\ IF ~nh.opened
              THEN /\ handles' = handles
                   /\ runLog' = Append(runLog, [err |-> nh.err, h |-> 0, made |-> 0])
              ELSE IF nh.err # "nil"
              THEN /\ handles' = Append(handles, new)
                   /\ runLog' = Append(runLog, [err |-> nh.err, h |-> 0, made |-> h])
              ELSE /\ handles' = Append(handles,
                        [new EXCEPT !.shell.stdinQ =
                                        SubSeq(StdinLines(call.cmd, new.endMark), 1, n),
                                    !.wrote =
                                        SubSeq(StdinLines(call.cmd, new.endMark), 1, n),
                                    !.started = ok])
                   /\ runLog' = Append(runLog,
                        [err |-> IF ok THEN "nil" ELSE outcome,
                         h |-> IF ok THEN h ELSE 0, made |-> h])
    /\ UNCHANGED <<scpVars, dial>>

-----------------------------------------------------------------------------
(* recv: the reader task of one stream *)

IsEndMarkOffByOne(bytes, endMark) == Len(bytes) = Len(endMark) + 1 /\ bytes = endMark

\* len(bytes) == len(endMark) && string(bytes) == endMark
IsEndMark(bytes, endMark) == Len(bytes) = Len(endMark) /\ bytes = endMark

RecvIterationNoFlush(rd, r, endMark) ==
    IF r.err = "other"
    THEN [rd EXCEPT !.sendQ = <<ErrorLine>>, !.exit = TRUE]
    ELSE IF r.err = "EOF"
    THEN [rd EXCEPT !.exit = TRUE]
    ELSE LET bytes == rd.acc \o r.data IN
         IF r.isPrefix THEN [rd EXCEPT !.acc = bytes]
         ELSE IF Len(bytes) = Len(endMark) /\ bytes = endMark
         THEN [rd EXCEPT !.acc = bytes, !.exit = TRUE]
         ELSE [rd EXCEPT !.sendQ = <<bytes>>, !.acc = <<>>]

RecvIterationEofLine(rd, r, endMark) ==
    IF r.err = "other"
    THEN [rd EXCEPT !.sendQ = (IF Len(rd.acc) > 0 THEN <<rd.acc>> ELSE <<>>) \o <<ErrorLine>>,
                    !.exit = TRUE]
    ELSE LET bytes == rd.acc \o r.data IN
         IF r.isPrefix THEN [rd EXCEPT !.acc = bytes]
         ELSE IF Len(bytes) = Len(endMark) /\ bytes = endMark
         THEN [rd EXCEPT !.acc = bytes, !.exit = TRUE]
         ELSE [rd EXCEPT !.sendQ = <<bytes>>, !.acc = <<>>, !.exit = r.err = "EOF"]

\* One iteration of recv's loop on what ReadLine returned: the reader's
\* accumulated bytes, the lines it now has to send, whether it returns after.
RecvIteration(rd, r, endMark) ==
    IF r.err = "other"
    THEN [rd EXCEPT !.sendQ = (IF Len(rd.acc) > 0 THEN <<rd.acc>> ELSE <<>>) \o <<ErrorLine>>,
                    !.exit = TRUE]
    ELSE IF r.err = "EOF"
    THEN [rd EXCEPT !.exit = TRUE]
    ELSE LET bytes == rd.acc \o r.data IN
         IF r.isPrefix THEN [rd EXCEPT !.acc = bytes]
         ELSE IF IsEndMark(bytes, endMark) THEN [rd EXCEPT !.acc = bytes, !.exit = TRUE]
         ELSE [rd EXCEPT !.sendQ = <<bytes>>, !.acc = <<>>]

\* The reader has returned: its deferred close(out) has run.
Returned(rd) == rd.exit /\ rd.sendQ = <<>>

RecvRead(h, s) ==
    LET hd == handles[h]
        rd == hd.rd[s]
    IN /\ hd.started
       /\ ~rd.done
       /\ ~rd.exit
       /\ rd.sendQ = <<>>
       /\ ReadLineReady(hd.stream[s], hd.streamEnd[s])
       /\ LET r   == ReadLine(hd.stream[s], hd.streamEnd[s])
              rd2 == RecvIteration(rd, r, hd.endMark)
          IN handles' = [handles EXCEPT
                 ![h].stream[s] = r.rest,
                 ![h].rd[s] = [rd2 EXCEPT !.done = Returned(rd2)],
                 ![h].chClosed[s] = Returned(rd2)]
       /\ UNCHANGED <<plan, runLog, scpVars, dial>>

CanSendNoLimit(q) == TRUE

\* A send on the buffered channel proceeds only while fewer than cap(out)
\* lines are pending; otherwise the sender blocks.
CanSend(q) == Len(q) < ChanCap

\* out <- line
RecvSend(h, s) ==
    LET hd == handles[h]
        rd == hd.rd[s]
    IN /\ hd.started
       /\ rd.sendQ # <<>>
       /\ CanSend(hd.ch[s])
       /\ LET rd2 == [rd EXCEPT !.sendQ = Tail(@)]
          IN handles' = [handles EXCEPT
                 ![h].ch[s] = Append(@, Head(rd.sendQ)),
                 ![h].rd[s] = [rd2 EXCEPT !.done = Returned(rd2)],
                 ![h].chClosed[s] = Returned(rd2)]
       /\ UNCHANGED <<plan, runLog, scpVars, dial>>

\* The caller receives from c.Stdout() / c.Stderr(): the next line, or the
\* observation that the channel is closed and drained.
Consume(h, s) ==
    LET hd == handles[h] IN
    /\ hd.started
    /\ ~hd.gotClosed[s]
    /\ hd.ch[s] # <<>> \/ hd.chClosed[s]
    /\ IF hd.ch[s] # <<>>
       THEN handles' = [handles EXCEPT ![h].got[s] = Append(@, Head(hd.ch[s])),
                                       ![h].ch[s] = Tail(@)]
       ELSE handles' = [handles EXCEPT ![h].gotClosed[s] = TRUE]
    /\ UNCHANGED <<plan, runLog, scpVars, dial>>

\* The caller of the README example: range over the stdout channel until it
\* is closed, only then range over the stderr channel.
RangeOutThenErr(h) ==
    Consume(h, IF handles[h].gotClosed["out"] THEN "err" ELSE "out")

-----------------------------------------------------------------------------
(* Cmd.CombinedOut *)

\* ch := make(chan []byte); wg.Add(1) and a forwarding task for each of
\* c.outCh and c.errCh; a task that waits for both and closes ch.
CombinedOut(h) ==
    /\ handles[h].started
    /\ ~handles[h].comb.called
    /\ handles' = [handles EXCEPT
           ![h].comb = [@ EXCEPT !.called = TRUE,
                                 !.fw = BothStreams([pc |-> "recv", line |-> <<>>]),
                                 !.wg = Cardinality(Streams),
                                 !.closer = "wait"]]
    /\ UNCHANGED <<plan, runLog, scpVars, dial>>

\* for line := range c.outCh: the next line, or the end of the loop and g.Done().
FwdRecv(h, s) ==
    LET hd == handles[h] IN
    /\ hd.comb.fw[s].pc = "recv"
    /\ hd.ch[s] # <<>> \/ hd.chClosed[s]
    /\ IF hd.ch[s] # <<>>
       THEN handles' = [handles EXCEPT
                ![h].comb.fw[s] = [pc |-> "send", line |-> Head(hd.ch[s])],
                ![h].ch[s] = Tail(@)]
       ELSE handles' = [handles EXCEPT
                ![h].comb.fw[s] = [pc |-> "done", line |-> <<>>],
                ![h].comb.wg = @ - 1]
    /\ UNCHANGED <<plan, runLog, scpVars, dial>>

\* out <- line on the unbuffered channel, completed by the caller's receive
\* (for line := range c.CombinedOut()); a send on a closed channel panics.
FwdSend(h, s) ==
    LET hd == handles[h] IN
    /\ hd.comb.fw[s].pc = "send"
    /\ ~hd.comb.panic
    /\ IF hd.comb.closed
       THEN handles' = [handles EXCEPT ![h].comb.panic = TRUE]
       ELSE handles' = [handles EXCEPT
                ![h].comb.got = Append(@, [s |-> s, line |-> hd.comb.fw[s].line]),
                ![h].comb.fw[s] = [pc |-> "recv", line |-> <<>>]]
    /\ UNCHANGED <<plan, runLog, scpVars, dial>>

WaitReturnsEarly(wg) == wg <= 1

\* g.Wait() returns when the counter is zero.
WaitReturns(wg) == wg = 0

\* g.Wait(); close(out)
CloseCombined(h) ==
    /\ handles[h].comb.closer = "wait"
    /\ WaitReturns(handles[h].comb.wg)
    /\ handles' = [handles EXCEPT ![h].comb.closer = "done",
                                  ![h].comb.closed = TRUE,
                                  ![h].comb.closes = @ + 1]
    /\ UNCHANGED <<plan, runLog, scpVars, dial>>

-----------------------------------------------------------------------------
(* Session.CopyTo: formatting *)

\* Bound: the number of files and directories below src.
MaxEntries == 3

OctChars == <<"0", "1", "2", "3", "4", "5", "6", "7">>

\* strconv.FormatUint(n, 8)
RECURSIVE FormatOct(_)
FormatOct(n) ==
    IF n < 8 THEN <<OctChars[n + 1]>>
    ELSE FormatOct(n \div 8) \o <<OctChars[(n % 8) + 1]>>

IsSpace(c) == c \in {" ", "\n", "\r", "\t"}

RECURSIVE TrimLeft(_)
TrimLeft(s) == IF s # <<>> /\ IsSpace(Head(s)) THEN TrimLeft(Tail(s)) ELSE s

RECURSIVE TrimRight(_)
TrimRight(s) ==
    IF s # <<>> /\ IsSpace(s[Len(s)]) THEN TrimRight(SubSeq(s, 1, Len(s) - 1)) ELSE s

\* strings.TrimSpace
TrimSpace(s) == TrimRight(TrimLeft(s))

\* fmt.Sprintf(f) and fmt.Errorf(f) with f as the format and no operands:
\* "%%" prints "%", "%" with a verb prints "%!verb(MISSING)", "%" at the end
\* prints "%!(NOVERB)", every other byte prints itself.  (Flags and widths
\* between "%" and the verb are not modelled; no text of the model has them.)
RECURSIVE Sprintf(_)
Sprintf(f) ==
    IF f = <<>> THEN <<>>
    ELSE IF Head(f) # "%" THEN <<Head(f)>> \o Sprintf(Tail(f))
    ELSE IF Len(f) = 1 THEN <<"%", "!", "(", "N", "O", "V", "E", "R", "B", ")">>
    ELSE IF f[2] = "%" THEN <<"%">> \o Sprintf(SubSeq(f, 3, Len(f)))
    ELSE <<"%", "!", f[2], "(", "M", "I", "S", "S", "I", "N", "G", ")">>
             \o Sprintf(SubSeq(f, 3, Len(f)))

-----------------------------------------------------------------------------
(* Session.CopyTo: the local tree at src *)

\* File and directory names, in the order ioutil.ReadDir lists them (sorted
\* by name, bytewise).
NameOrder == << <<"%", "d">>, <<"a">>, <<"b">> >>

Names == { NameOrder[i] : i \in 1..Len(NameOrder) }

\* A file or directory below src; path is relative to src.
Node(p, k) == [path |-> p, kind |-> k]

DirPaths(t) == {<<>>} \cup { n.path : n \in { m \in t : m.kind = "dir" } }

\* The trees with one more entry than t.
Grow(t) ==
    { t \cup {Node(Append(x[1], x[2]), x[3])} :
        x \in { y \in DirPaths(t) \X Names \X {"file", "dir"} :
                    ~\E n \in t : n.path = Append(y[1], y[2]) } }

RECURSIVE TreesUpTo(_)
TreesUpTo(n) ==
    IF n = 0 THEN {{}}
    ELSE LET prev == TreesUpTo(n - 1) IN prev \cup UNION { Grow(t) : t \in prev }

\* fi.Mode() of the regular files named "a" is the job's choice: 0644, or
\* 0755 with os.ModeSetuid (1 << 23).  Every other file has 0644.
Modes == {420, 8388608 + 493}

\* fi.Name(): the last element of the path; src itself is named "a".
LocalName(p) == IF p = <<>> THEN <<"a">> ELSE p[Len(p)]

Mode(p) == IF LocalName(p) = <<"a">> THEN job.mode ELSE 420

\* The bytes of the file at p: files named "b" are empty, every other file
\* holds one byte for each directory above it and an "x".
Content(p) ==
    IF LocalName(p) = <<"b">> THEN <<>>
    ELSE [i \in 1..(Len(p) + 1) |-> IF i <= Len(p) THEN Head(p[i]) ELSE "x"]

\* os.Stat(src) at p.
Stat(p) ==
    IF p = <<>> THEN job.root
    ELSE IF \E n \in job.tree : n.path = p
         THEN (CHOOSE n \in job.tree : n.path = p).kind
         ELSE "missing"

\* ioutil.ReadDir(p), the entries of kind k only.
Children(p, k) ==
    SelectSeq(NameOrder, LAMBDA nm : Node(Append(p, nm), k) \in job.tree)

\* The target argument as strings.Split(target, "/") sees it: "t", "t/u",
\* "/t", "t/%d".
Targets ==
    { << <<"t">> >>, << <<"t">>, <<"u">> >>, << <<>>, <<"t">> >>,
      << <<"t">>, <<"%", "d">> >> }

\* path.IsAbs(target)
IsAbs(target) == Len(target) > 1 /\ target[1] = <<>>

\* The remote directory the string target names: its elements below "/" or
\* below the login directory ".".
Resolve(target) ==
    <<IF IsAbs(target) THEN <<"/">> ELSE <<".">> >>
        \o SelectSeq(target, LAMBDA part : part # <<>>)

-----------------------------------------------------------------------------
(* Session.CopyTo: the remote sink and the remote file system *)

NoMsg == [op |-> "-", mode |-> <<>>, size |-> 0, name |-> <<>>]

\* "D0755 0 <part>": the line is built by Sprintf with the name in the format.
DirLine(part) ==
    [op |-> "D", mode |-> <<"0", "7", "5", "5">>, size |-> 0, name |-> Sprintf(part)]

EndLine == [op |-> "E", mode |-> <<>>, size |-> 0, name |-> <<>>]

\* "C0<mode> <size> <name>" for the file at p.
FileModeField(p) == <<"0">> \o FormatOct(Mode(p))

FileLine(p) ==
    [op |-> "C", mode |-> FileModeField(p), size |-> Len(Content(p)), name |-> LocalName(p)]

\* The byte 0.
Null == "\\0"

\* The file body: the bytes of the file, then a null byte.
FileBody(p) ==
    [op |-> "body", mode |-> <<>>, size |-> Len(Content(p)), name |-> Content(p) \o <<Null>>]

\* The text a sink sends after ack byte 1 or 2.
Msgs == { <<"m", "\n">>, <<"%", "d", " ", "m", "\n">> }

\* What the client meets when it sends a message and reads the response: the
\* write fails; the read of the ack byte fails; ack byte 0; or ack byte 1 or 2
\* with a message line, after which the sink sends one more line, closes its
\* output, or stays silent.
Responses ==
    { [io |-> x, ack |-> 0, msg |-> <<>>, after |-> "-"] : x \in {"ok", "writeErr", "readErr"} }
    \cup { [io |-> "ok", ack |-> a, msg |-> m, after |-> f] :
             a \in {1, 2}, m \in Msgs, f \in {"line", "eof", "silent"} }

Accepted(resp) == resp.io = "ok" /\ resp.ack = 0

\* A sink as `scp -tr <dir>` starts it: cwd is the directory it is in, pend
\* the file header it has acknowledged and not yet received the body of, src
\* the local path of the call that started it.
NewSink(open, dir, src) == [open |-> open, cwd |-> dir, pend |-> NoMsg, src |-> src]

IsDir(fs, p) == \E n \in fs : n.path = p /\ n.kind = "dir"

\* Where the sink writes a file named nm: below cwd when cwd is a directory.
SinkFilePath(fs, cwd, nm) == IF IsDir(fs, cwd) THEN Append(cwd, nm) ELSE cwd

\* The remote path a message is about.
SinkPath(fs, sk, msg) ==
    CASE msg.op = "D"    -> Append(sk.cwd, msg.name)
      [] msg.op = "body" -> SinkFilePath(fs, sk.cwd, sk.pend.name)
      [] OTHER           -> sk.cwd

Without(fs, p) == { n \in fs : n.path # p }

\* The sink after a message it answered with ack 0.
SinkAfter(sk, msg) ==
    CASE msg.op = "D" -> [sk EXCEPT !.cwd = Append(@, msg.name)]
      [] msg.op = "E" -> [sk EXCEPT !.cwd = SubSeq(@, 1, Len(@) - 1)]
      [] msg.op = "C" -> [sk EXCEPT !.pend = msg]
      [] OTHER        -> [sk EXCEPT !.pend = NoMsg]

\* The remote file system after a message the sink answered with ack 0.
FsAfter(fs, sk, msg) ==
    CASE msg.op = "D" ->
            IF IsDir(fs, SinkPath(fs, sk, msg)) THEN fs
            ELSE Without(fs, SinkPath(fs, sk, msg))
                    \cup {[path |-> SinkPath(fs, sk, msg), kind |-> "dir", data |-> <<>>]}
      [] msg.op = "body" ->
            Without(fs, SinkPath(fs, sk, msg))
                 \cup {[path |-> SinkPath(fs, sk, msg), kind |-> "file",
                        data |-> SubSeq(msg.name, 1, Min(sk.pend.size, Len(msg.name)))]}
      [] OTHER -> fs

\* The remote side before CopyTo: "/" and the login directory.
BaseFS ==
    { [path |-> << <<"/">> >>, kind |-> "dir", data |-> <<>>],
      [path |-> << <<".">> >>, kind |-> "dir", data |-> <<>>] }

-----------------------------------------------------------------------------
(* Session.CopyTo: the client *)

NoErr == [kind |-> "nil", text |-> <<>>]

\* The errors CopyTo returns: of newSessionHandle, of a write or read on the
\* sink's pipes, and the one handleScpResp builds from the sink's message.
HandleErr(outcome) == [kind |-> "handle", text |-> <<>>]

IoErr == [kind |-> "io", text |-> <<>>]

ScpErr(text) == [kind |-> "scp", text |-> text]

\* The second line handleScpResp reads after the message line.
Msg2(after) == IF after = "line" THEN <<"n", "\n">> ELSE <<>>

IsErrorAckFatalOnly(b) == b = 2

\* Which ack bytes handleScpResp takes for an error.
IsErrorAck(b) == b = 1 \/ b = 2

\* handleScpResp: blocked is TRUE when it never returns.
handleScpResp(resp) ==
    IF resp.io = "readErr" THEN [blocked |-> FALSE, err |-> IoErr]
    ELSE IF IsErrorAck(resp.ack)
    THEN IF resp.after = "silent" THEN [blocked |-> TRUE, err |-> NoErr]
         ELSE [blocked |-> FALSE,
               err |-> ScpErr(Sprintf(TrimSpace(resp.msg) \o Msg2(resp.after)))]
    ELSE [blocked |-> FALSE, err |-> NoErr]

\* sendScpCmd, and the second half of copyFileTo: write, flush, read the
\* response.
sendScpCmd(resp) ==
    IF resp.io = "writeErr" THEN [blocked |-> FALSE, err |-> IoErr]
    ELSE handleScpResp(resp)

\* What a call still has to do, in order: send a control line, send a file
\* body, close its handle, call copyPathTo(src, tgt).
SendOp(msg) == [op |-> "send", msg |-> msg, src |-> <<>>, tgt |-> <<>>]

BodyOp(p) == [op |-> "body", msg |-> FileBody(p), src |-> p, tgt |-> <<>>]

CloseOp == [op |-> "close", msg |-> NoMsg, src |-> <<>>, tgt |-> <<>>]

CallOp(p, target) == [op |-> "call", msg |-> NoMsg, src |-> p, tgt |-> target]

\* copyFileTo(rw, p)
copyFileTo(p) == <<[SendOp(FileLine(p)) EXCEPT !.src = p], BodyOp(p)>>

RECURSIVE Flatten(_)
Flatten(ss) == IF ss = <<>> THEN <<>> ELSE Head(ss) \o Flatten(Tail(ss))

\* The parts of target CopyTo makes directories for.
PathParts(target) == SelectSeq(target, LAMBDA part : TrimSpace(part) # <<>>)

CopyToOpsNoClose(target) ==
    LET parts == PathParts(target)
    IN [i \in 1..Len(parts) |-> SendOp(DirLine(parts[i]))]
         \o [i \in 1..Len(parts) |-> SendOp(EndLine)]
         \o <<CallOp(<<>>, target)>>

\* CopyTo after its handle is open: a D line for every part, as many E
\* lines, close, copyPathTo.
CopyToOps(target) ==
    LET parts == PathParts(target)
    IN [i \in 1..Len(parts) |-> SendOp(DirLine(parts[i]))]
         \o [i \in 1..Len(parts) |-> SendOp(EndLine)]
         \o <<CloseOp, CallOp(<<>>, target)>>

\* The child directories copyPathTo sends a D and E line for.
MadeDirs(p) == Children(p, "dir")

copyPathToOpsCallFirst(p, target) ==
    LET files == Children(p, "file")
        dirs  == Children(p, "dir")
    IN Flatten([i \in 1..Len(files) |-> copyFileTo(Append(p, files[i]))])
         \o Flatten([i \in 1..Len(dirs) |->
                <<[SendOp(DirLine(dirs[i])) EXCEPT !.src = Append(p, dirs[i])],
                  SendOp(EndLine)>>])
         \o [i \in 1..Len(dirs) |->
                CallOp(Append(p, dirs[i]), Append(target, dirs[i]))]
         \o <<CloseOp>>

\* copyPathTo(p, target) for a directory, after its handle is open: the
\* child files, a D and E line for the child directories, close, then
\* copyPathTo for every child directory.
copyPathToOps(p, target) ==
    LET files == Children(p, "file")
        dirs  == Children(p, "dir")
        made  == MadeDirs(p)
    IN Flatten([i \in 1..Len(files) |-> copyFileTo(Append(p, files[i]))])
         \o Flatten([i \in 1..Len(made) |->
                <<[SendOp(DirLine(made[i])) EXCEPT !.src = Append(p, made[i])],
                  SendOp(EndLine)>>])
         \o <<CloseOp>>
         \o [i \in 1..Len(dirs) |->
                CallOp(Append(p, dirs[i]), Append(target, dirs[i]))]

\* A call of CopyTo or copyPathTo: its handle, whether it has a deferred
\* close, the success flag of that deferred close, and what is left to do.
Frame(h, defer, ops) == [h |-> h, defer |-> defer, success |-> FALSE, ops |-> ops]

UnwoundNone(sk, st) == sk

\* The deferred closes that run when every call on the stack returns.
Unwound(sk, st) ==
    [i \in DOMAIN sk |->
        IF \E f \in DOMAIN st : st[f].h = i /\ st[f].defer /\ ~st[f].success
        THEN [sk[i] EXCEPT !.open = FALSE] ELSE sk[i]]

Idle == [state |-> "idle", err |-> NoErr]

Running == [state |-> "running", err |-> NoErr]

Top == stack[Len(stack)]

AtOp(op) ==
    /\ copyRes.state = "running"
    /\ stack # <<>>
    /\ Top.ops # <<>>
    /\ Head(Top.ops).op = op

Advanced(st) == [st EXCEPT ![Len(st)].ops = Tail(@)]

\* CopyTo(src, target): open the sink at "/" or "."
CopyTo ==
    /\ copyRes.state = "idle"
    /\ \E outcome \in HandleOutcomes :
        LET nh == newSessionHandle(outcome)
            sk == IF nh.opened
                  THEN Append(sinks, NewSink(nh.open,
                                  <<IF IsAbs(job.target) THEN <<"/">> ELSE <<".">> >>, <<>>))
                  ELSE sinks
        IN /\ sinks' = sk
           /\ IF nh.err = "nil"
              THEN /\ stack' = <<Frame(Len(sk), FALSE, CopyToOps(job.target))>>
                   /\ copyRes' = Running
              ELSE /\ stack' = stack
                   /\ copyRes' = [state |-> "returned", err |-> HandleErr(outcome)]
    /\ UNCHANGED <<job, rfs, scpLog, runVars, dial>>

\* One sendScpCmd, or the body of one copyFileTo: the message goes to the
\* sink unless the write fails, the sink acts on it when it answers 0, and
\* the client continues, returns the error through every call, or blocks.
Exchange(resp) ==
    LET o   == Head(Top.ops)
        h   == Top.h
        res == sendScpCmd(resp)
    IN /\ scpLog' = Append(scpLog, [h |-> h, msg |-> o.msg, src |-> o.src, resp |-> resp,
                                    at |-> SinkPath(rfs, sinks[h], o.msg)])
       /\ rfs' = IF Accepted(resp) THEN FsAfter(rfs, sinks[h], o.msg) ELSE rfs
       /\ IF res.blocked
          THEN /\ copyRes' = [state |-> "blocked", err |-> NoErr]
               /\ UNCHANGED <<stack, sinks>>
          ELSE IF res.err.kind # "nil"
          THEN /\ copyRes' = [state |-> "returned", err |-> res.err]
               /\ sinks' = Unwound(sinks, stack)
               /\ stack' = <<>>
          ELSE /\ copyRes' = copyRes
               /\ sinks' = [sinks EXCEPT ![h] = SinkAfter(@, o.msg)]
               /\ stack' = Advanced(stack)
       /\ UNCHANGED <<job, runVars, dial>>

SendLine ==
    /\ AtOp("send")
    /\ \E resp \in Responses : Exchange(resp)

SendBody ==
    /\ AtOp("body")
    /\ \E resp \in Responses : Exchange(resp)

\* h.close() after the last control line (with success[0] = true in
\* copyPathTo).
CloseSink ==
    /\ AtOp("close")
    /\ sinks' = [sinks EXCEPT ![Top.h].open = FALSE]
    /\ stack' = [Advanced(stack) EXCEPT ![Len(stack)].success = TRUE]
    /\ UNCHANGED <<job, rfs, scpLog, copyRes, runVars, dial>>

\* copyPathTo(src, target) up to its first message: open the sink at target,
\* Stat, ReadDir.  fi is nil when Stat fails, and fi.IsDir() panics.
CopyPathTo ==
    /\ AtOp("call")
    /\ \E outcome \in HandleOutcomes :
        LET o  == Head(Top.ops)
            nh == newSessionHandle(outcome)
            sk == IF nh.opened
                  THEN Append(sinks, NewSink(nh.open, Resolve(o.tgt), o.src))
                  ELSE sinks
            h  == Len(sk)
            fi == Stat(o.src)
        IN IF nh.err # "nil"
           THEN /\ sinks' = Unwound(sk, stack)
                /\ stack' = <<>>
                /\ copyRes' = [state |-> "returned", err |-> HandleErr(outcome)]
           ELSE IF fi = "missing"
           THEN /\ sinks' = [Unwound(sk, stack) EXCEPT ![h].open = FALSE]
                /\ stack' = <<>>
                /\ copyRes' = [state |-> "panic", err |-> NoErr]
           ELSE /\ sinks' = sk
                /\ stack' = Append(Advanced(stack),
                                Frame(h, TRUE, IF fi = "file" THEN copyFileTo(o.src)
                                               ELSE copyPathToOps(o.src, o.tgt)))
                /\ copyRes' = copyRes
    /\ UNCHANGED <<job, rfs, scpLog, runVars, dial>>

\* A call returns nil: its deferred close runs, and CopyTo returns when it
\* was the outermost call.
Return ==
    /\ copyRes.state = "running"
    /\ stack # <<>>
    /\ Top.ops = <<>>
    /\ sinks' = Unwound(sinks, <<Top>>)
    /\ stack' = SubSeq(stack, 1, Len(stack) - 1)
    /\ copyRes' = IF Len(stack) = 1 THEN [state |-> "returned", err |-> NoErr] ELSE copyRes
    /\ UNCHANGED <<job, rfs, scpLog, runVars, dial>>

\* CopyTo is not called.
NoCopy ==
    /\ job = [root |-> "missing", tree |-> {}, target |-> << <<"t">> >>, mode |-> 420]
    /\ stack = <<>>
    /\ sinks = <<>>
    /\ rfs = BaseFS
    /\ scpLog = <<>>
    /\ copyRes = Idle

-----------------------------------------------------------------------------
(* NewSessionWithRetry.  Time is in whole seconds. *)

\* Bound: the clock stops here.
MaxTime == 4

\* Bound: the longest a dial attempt takes.  ssh.Dial bounds the TCP connect
\* by the one second NewSession is given, not the handshake after it.
MaxDial == 2

\* Bound: the largest `to` argument.
MaxTo == 2

\* 365 * 24 * time.Hour, the timeout when `to` is 0.
Year == 365 * 24 * 3600

\* How NewSession ends: a session; an error that has "unable to
\* authenticate" in its text; any other error.
DialOutcomes == {"ok", "auth", "net"}

\* strings.Contains(err.Error(), "unable to authenticate")
IsAuthFailureNever(err) == FALSE

IsAuthFailure(err) == err = "auth"

\* pc: where NewSessionWithRetry is (idle, dialing: inside NewSession,
\* select, done).  ticker: the ticker and the timeout timer exist.  tick: a
\* tick is waiting in the ticker's channel, which holds one.  created: when
\* the ticker was made.  taken: the ticks received.  attempts: the NewSession
\* calls that have returned.  res: what was returned.
NoDialRes == [s |-> FALSE, err |-> "nil"]

IdleDial(to) ==
    [pc |-> "idle", to |-> to, now |-> 0, deadline |-> 0, ticker |-> FALSE,
     tick |-> FALSE, created |-> 0, taken |-> 0, started |-> 0,
     attempts |-> <<>>, res |-> NoDialRes]

\* deadline := time.Now().Add(to), and the first NewSession call.
NewSessionWithRetry ==
    /\ dial.pc = "idle"
    /\ dial' = [dial EXCEPT !.pc = "dialing",
                            !.deadline = dial.now + (IF dial.to = 0 THEN Year ELSE dial.to),
                            !.started = dial.now]
    /\ UNCHANGED <<runVars, scpVars>>

\* The timeout timer has fired: time.After(deadline.Sub(time.Now())) fires
\* at once when the deadline has passed.
TimeoutReady == dial.ticker /\ dial.now >= dial.deadline

\* A NewSession call returns after d seconds.  After the first failure the
\* ticker and the timeout timer are made; then the loop head: return on an
\* authentication failure, else select.
NewSession ==
    /\ dial.pc = "dialing"
    /\ \E d \in 0..MaxDial, out \in DialOutcomes :
        /\ dial.now + d <= MaxTime
        /\ LET after == [dial EXCEPT
                            !.now = @ + d,
                            !.tick = @ \/ (dial.ticker /\ d > 0),
                            !.attempts = Append(@, [start |-> dial.started,
                                                    end |-> dial.now + d,
                                                    err |-> out])]
               armed == IF dial.ticker THEN after
                        ELSE [after EXCEPT !.ticker = TRUE, !.created = after.now]
           IN dial' = IF out = "ok"
                      THEN [after EXCEPT !.pc = "done", !.res = [s |-> TRUE, err |-> "nil"]]
                      ELSE IF IsAuthFailure(out)
                      THEN [armed EXCEPT !.pc = "done", !.res = [s |-> FALSE, err |-> out]]
                      ELSE [armed EXCEPT !.pc = "select"]
    /\ UNCHANGED <<runVars, scpVars>>

\* case <-timeout
Timeout ==
    /\ dial.pc = "select"
    /\ TimeoutReady
    /\ dial' = [dial EXCEPT !.pc = "done", !.res = [s |-> FALSE, err |-> "timeout"]]
    /\ UNCHANGED <<runVars, scpVars>>

\* case <-ticker.C
Tick ==
    /\ dial.pc = "select"
    /\ dial.tick
    /\ dial' = [dial EXCEPT !.pc = "dialing", !.tick = FALSE, !.taken = @ + 1,
                            !.started = dial.now]
    /\ UNCHANGED <<runVars, scpVars>>

\* A second passes while select has nothing to receive; the ticker ticks.
Wait ==
    /\ dial.pc = "select"
    /\ ~dial.tick
    /\ ~TimeoutReady
    /\ dial.now < MaxTime
    /\ dial' = [dial EXCEPT !.now = @ + 1, !.tick = TRUE]
    /\ UNCHANGED <<runVars, scpVars>>

\* NewSessionWithRetry is not called.
NoDial == dial = IdleDial(0)

-----------------------------------------------------------------------------
(* Workloads *)

\* With a line end after every line, or after every line but the last.
RECURSIVE JoinLines(_, _)
JoinLines(lines, terminated) ==
    IF lines = <<>> THEN <<>>
    ELSE IF Len(lines) = 1 /\ ~terminated THEN lines[1]
    ELSE lines[1] \o <<"\n">> \o JoinLines(Tail(lines), terminated)

\* Lines a command may print: empty, plain, the marker of timestamp 1, and
\* that marker with a carriage return.
LinePool == { <<>>, <<"a">>, EndMark(1), EndMark(1) \o <<"\r">> }

RichOutputs ==
    { JoinLines(ls, t) : ls \in UNION { [1..k -> LinePool] : k \in 0..MaxLines },
                         t \in BOOLEAN }

PlainOutputs == { <<>>, <<"b", "\n">> }

Other(s) == IF s = "out" THEN "err" ELSE "out"

\* A command writing `rich` to stream s and `plain` to the other stream.
EmitCmd(s, rich, plain) ==
    Emit(SelectSeq(<< [fd |-> s, data |-> rich], [fd |-> Other(s), data |-> plain] >>,
                   LAMBDA w : w.data # <<>>))

ByteCmds == { EmitCmd(s, r, p) : s \in Streams, r \in RichOutputs, p \in PlainOutputs }

\* The backpressure workload: the i-th line a command prints.
PatternLine(i) == IF i % 3 = 1 THEN <<"a">> ELSE IF i % 3 = 2 THEN <<>> ELSE <<"b">>

\* A command printing n lines to stream s, one write per line, after m
\* lines to the other stream.
LineCmd(s, n, m) ==
    Emit([i \in 1..m |-> [fd |-> Other(s), data |-> <<"c", "\n">>]]
         \o [i \in 1..n |-> [fd |-> s, data |-> PatternLine(i) \o <<"\n">>]])

\* Bound: how far below and above the reader's buffer size the long lines go.
LongSpan == 1

\* A command writing one line of BufSize - LongSpan .. BufSize + LongSpan
\* bytes to stream s, with or without its line end, and p to the other.
LongLine(n, terminated) ==
    [i \in 1..n |-> "a"] \o (IF terminated THEN <<"\n">> ELSE <<>>)

LongCmds ==
    { EmitCmd(s, LongLine(n, t), p) :
        s \in Streams, n \in (BufSize - LongSpan)..(BufSize + LongSpan),
        t \in BOOLEAN, p \in PlainOutputs }

\* One Run of a command with a line about as long as the reader's buffer.
InitLongLines ==
    /\ plan \in { << [cmd |-> c, nanos |-> 1, wait |-> FALSE] >> : c \in LongCmds }
    /\ handles = <<>>
    /\ runLog = <<>>
    /\ NoCopy
    /\ NoDial

\* A line of an eighth of the transport window, and how many of them the
\* transport holds.
WideLine == [i \in 1..(Window \div 8) |-> "a"] \o <<"\n">>

WindowLines == Window \div Len(WideLine)

\* A command printing n such lines to stderr and nothing to stdout.
StderrCmd(n) == Emit([i \in 1..n |-> [fd |-> "err", data |-> WideLine]])

\* One Run of a command printing up to ExtraLines lines more than the
\* transport, the stderr channel and the stderr reader hold together, read
\* by the caller of the README example.
InitReadme ==
    /\ plan \in { << [cmd |-> StderrCmd(n), nanos |-> 1, wait |-> FALSE] >> :
                  n \in 0..(WindowLines + ChanCap + 1 + ExtraLines) }
    /\ handles = <<>>
    /\ runLog = <<>>
    /\ NoCopy
    /\ NoDial

NextReadme ==
    \/ Run
    \/ \E h \in DOMAIN handles : ShellStep(h)
    \/ \E h \in DOMAIN handles : \E s \in Streams : RecvRead(h, s)
    \/ \E h \in DOMAIN handles : \E s \in Streams : RecvSend(h, s)
    \/ \E h \in DOMAIN handles : RangeOutThenErr(h)

SpecReadme == InitReadme /\ [][NextReadme]_vars

InitRun ==
    /\ plan \in { << [cmd |-> c, nanos |-> t, wait |-> FALSE] >> : c \in ByteCmds, t \in Timestamps }
    /\ handles = <<>>
    /\ runLog = <<>>
    /\ NoCopy
    /\ NoDial

NextRun ==
    \/ Run
    \/ \E h \in DOMAIN handles : ShellStep(h)
    \/ \E h \in DOMAIN handles : \E ends \in StreamEnds : Disconnect(h, ends)
    \/ \E h \in DOMAIN handles : \E s \in Streams : RecvRead(h, s)
    \/ \E h \in DOMAIN handles : \E s \in Streams : RecvSend(h, s)
    \/ \E h \in DOMAIN handles : \E s \in Streams : Consume(h, s)

SpecRun == InitRun /\ [][NextRun]_vars

SpecLongLines == InitLongLines /\ [][NextRun]_vars

\* One Run of a command that prints more lines than a channel holds.
InitBackpressure ==
    /\ plan \in { << [cmd |-> LineCmd(s, ChanCap + ExtraLines, m), nanos |-> 1, wait |-> FALSE] >> :
                  s \in Streams, m \in 0..1 }
    /\ handles = <<>>
    /\ runLog = <<>>
    /\ NoCopy
    /\ NoDial

SpecBackpressure == InitBackpressure /\ [][NextRun]_vars

\* One Run whose caller reads the Cmd through CombinedOut only.
InitCombined ==
    /\ plan \in { << [cmd |-> c, nanos |-> 1, wait |-> FALSE] >> : c \in ByteCmds }
    /\ handles = <<>>
    /\ runLog = <<>>
    /\ NoCopy
    /\ NoDial

NextCombined ==
    \/ Run
    \/ \E h \in DOMAIN handles : ShellStep(h)
    \/ \E h \in DOMAIN handles : \E ends \in StreamEnds : Disconnect(h, ends)
    \/ \E h \in DOMAIN handles : \E s \in Streams : RecvRead(h, s)
    \/ \E h \in DOMAIN handles : \E s \in Streams : RecvSend(h, s)
    \/ \E h \in DOMAIN handles : CombinedOut(h)
    \/ \E h \in DOMAIN handles : \E s \in Streams : FwdRecv(h, s)
    \/ \E h \in DOMAIN handles : \E s \in Streams : FwdSend(h, s)
    \/ \E h \in DOMAIN handles : CloseCombined(h)

SpecCombined == InitCombined /\ [][NextCombined]_vars

\* A caller making RunCalls calls of Run, each "cd tmp" or "pwd", each made
\* after the output of the earlier ones was drained (the exec helper of
\* TestSession).
InitShell ==
    /\ plan \in [1..RunCalls -> { [cmd |-> c, nanos |-> 1, wait |-> TRUE] :
                                  c \in {Cd("tmp"), Pwd} }]
    /\ handles = <<>>
    /\ runLog = <<>>
    /\ NoCopy
    /\ NoDial

SpecShell == InitShell /\ [][NextRun]_vars

\* CopyTo(src, target) with src a directory holding any tree of at most
\* MaxEntries entries, a regular file, or nothing.
Jobs ==
    { [root |-> "dir", tree |-> t, target |-> g, mode |-> m] :
        t \in TreesUpTo(MaxEntries), g \in Targets, m \in Modes }
    \cup { [root |-> r, tree |-> {}, target |-> g, mode |-> m] :
             r \in {"file", "missing"}, g \in Targets, m \in Modes }

InitCopy ==
    /\ plan = <<>>
    /\ handles = <<>>
    /\ runLog = <<>>
    /\ job \in Jobs
    /\ stack = <<>>
    /\ sinks = <<>>
    /\ rfs = BaseFS
    /\ scpLog = <<>>
    /\ copyRes = Idle
    /\ NoDial

NextCopy ==
    \/ CopyTo
    \/ SendLine
    \/ SendBody
    \/ CloseSink
    \/ CopyPathTo
    \/ Return

SpecCopy == InitCopy /\ [][NextCopy]_vars

\* NewSessionWithRetry with any timeout up to MaxTo seconds, 0 included.
InitRetry ==
    /\ plan = <<>>
    /\ handles = <<>>
    /\ runLog = <<>>
    /\ NoCopy
    /\ \E to \in 0..MaxTo : dial = IdleDial(to)

NextRetry ==
    \/ NewSessionWithRetry
    \/ NewSession
    \/ Timeout
    \/ Tick
    \/ Wait

SpecRetry == InitRetry /\ [][NextRetry]_vars

-----------------------------------------------------------------------------
(* Claims about Session.Run *)

\* The bytes command cmd writes to stream s.
RECURSIVE CmdBytes(_, _)
CmdBytes(writes, s) ==
    IF writes = <<>> THEN <<>>
    ELSE (IF Head(writes).fd = s THEN Head(writes).data ELSE <<>>) \o CmdBytes(Tail(writes), s)

\* What the command of handle h prints to stream s, as lines.
CmdLines(h, s) == LinesOf(CmdBytes(handles[h].cmd.writes, s))

InSeq(x, q) == \E i \in 1..Len(q) : q[i] = x

\* Run returned the Cmd of handle h, no line of the command equals the
\* marker, and the remote side has not gone away.
NormalRun(h) ==
    /\ handles[h].started
    /\ \A s \in Streams : handles[h].streamEnd[s] = "open"
    /\ \A s \in Streams : ~InSeq(handles[h].endMark, CmdLines(h, s))

\* C1: for a command none of whose lines equals the marker, what the caller
\* has received from each channel is at every moment a prefix of the command's
\* lines of that stream, and all of them once the channel is seen closed.
C1_ExactLinesThenClosed ==
    \A h \in DOMAIN handles : \A s \in Streams :
        NormalRun(h) =>
            /\ IsPrefix(handles[h].got[s], CmdLines(h, s))
            /\ handles[h].gotClosed[s] => handles[h].got[s] = CmdLines(h, s)

\* The same for commands whose output on each stream ends with a line end.
Terminated(b) == b = <<>> \/ b[Len(b)] = "\n"

C1_TerminatedOutput ==
    \A h \in DOMAIN handles : \A s \in Streams :
        (NormalRun(h) /\ \A t \in Streams : Terminated(CmdBytes(handles[h].cmd.writes, t))) =>
            /\ IsPrefix(handles[h].got[s], CmdLines(h, s))
            /\ handles[h].gotClosed[s] => handles[h].got[s] = CmdLines(h, s)

\* C2: no line that a reader sends, that is pending in a channel or that the
\* caller has received equals the marker of its Run invocation.
C2_MarkerNeverDelivered ==
    \A h \in DOMAIN handles : \A s \in Streams :
        /\ ~InSeq(handles[h].endMark, handles[h].rd[s].sendQ)
        /\ ~InSeq(handles[h].endMark, handles[h].ch[s])
        /\ ~InSeq(handles[h].endMark, handles[h].got[s])

\* A reader met the marker line after other lines: it closed its channel
\* while the stream was still open, and the caller has drained the channel.
C2_Witness ==
    \E h \in DOMAIN handles : \E s \in Streams :
        /\ handles[h].streamEnd[s] = "open"
        /\ handles[h].rd[s].acc = handles[h].endMark
        /\ handles[h].gotClosed[s]
        /\ Len(handles[h].got[s]) >= 2

\* The bytes of stream s that the reader of handle h has taken so far.
Consumed(h, s) ==
    SubSeq(handles[h].sent[s], 1, Len(handles[h].sent[s]) - Len(handles[h].stream[s]))

\* The lines the reader has read before the marker.
LinesRead(h, s) ==
    LET ls == LinesOf(Consumed(h, s)) IN
    IF ls # <<>> /\ ls[Len(ls)] = handles[h].endMark THEN SubSeq(ls, 1, Len(ls) - 1) ELSE ls

\* The reader returned because its read failed.
ReadFailed(h, s) ==
    /\ handles[h].rd[s].exit
    /\ handles[h].streamEnd[s] = "err"
    /\ handles[h].rd[s].acc # handles[h].endMark

\* Received by the caller, pending in the channel, held by the blocked reader.
InPipeline(h, s) == handles[h].got[s] \o handles[h].ch[s] \o handles[h].rd[s].sendQ

\* C4: a channel never holds more than 16 lines, and the lines the reader
\* has read before the marker are, in order and once each, those the caller
\* has received, those pending in the channel and the one the blocked reader
\* holds; when the caller sees the channel closed it has received them all.
C4_BoundedNoLoss ==
    \A h \in DOMAIN handles : \A s \in Streams :
        LET expected == LinesRead(h, s) \o (IF ReadFailed(h, s) THEN <<ErrorLine>> ELSE <<>>)
        IN /\ Len(handles[h].ch[s]) <= ChanCap
           /\ InPipeline(h, s) = expected
           /\ handles[h].gotClosed[s] => handles[h].got[s] = expected

\* 16 lines are pending, the reader is blocked on the send of the 17th and
\* the stream holds a further unread line.
C4_Witness ==
    \E h \in DOMAIN handles : \E s \in Streams :
        /\ Len(handles[h].ch[s]) = ChanCap
        /\ handles[h].rd[s].sendQ # <<>>
        /\ handles[h].rd[s].sendQ[1] = PatternLine(ChanCap + 1)
        /\ handles[h].got[s] = <<>>
        /\ FirstNL(handles[h].stream[s]) > 0

\* The Run calls that returned a Cmd.
Succeeded == { i \in DOMAIN runLog : runLog[i].err = "nil" }

\* The pwd of handle h has completed: the caller has seen its stdout close
\* after the marker.
PwdDone(h) ==
    /\ handles[h].started
    /\ handles[h].cmd = Pwd
    /\ handles[h].streamEnd["out"] = "open"
    /\ handles[h].gotClosed["out"]

RECURSIVE FromStream(_, _)
FromStream(q, s) ==
    IF q = <<>> THEN <<>>
    ELSE (IF Head(q).s = s THEN <<Head(q).line>> ELSE <<>>) \o FromStream(Tail(q), s)

\* What the reader of stream s sends in all: the lines read, and the error
\* line after a failed read.
Forwarded(h, s) == LinesRead(h, s) \o (IF ReadFailed(h, s) THEN <<ErrorLine>> ELSE <<>>)

\* C10: the lines of each stream received from the combined channel, the one
\* its forwarder holds, those pending in the stream's channel and the one its
\* reader holds are, in order and once each, the lines the reader has read;
\* the combined channel is closed at most once, only after both stream
\* channels are closed and every line was received from it, and no forwarder
\* sends on it after the close.
C10_CombinedOut ==
    \A h \in DOMAIN handles :
        handles[h].comb.called =>
            /\ \A s \in Streams :
                   FromStream(handles[h].comb.got, s)
                       \o (IF handles[h].comb.fw[s].pc = "send"
                           THEN <<handles[h].comb.fw[s].line>> ELSE <<>>)
                       \o handles[h].ch[s] \o handles[h].rd[s].sendQ
                   = Forwarded(h, s)
            /\ handles[h].comb.closes <= 1
            /\ ~handles[h].comb.panic
            /\ handles[h].comb.closed =>
                   \A s \in Streams :
                       /\ handles[h].chClosed[s]
                       /\ handles[h].comb.fw[s].pc = "done"
                       /\ FromStream(handles[h].comb.got, s) = Forwarded(h, s)

\* The combined channel was closed after the caller received two lines of
\* one stream around a line of the other.
C10_Witness ==
    \E h \in DOMAIN handles : \E s \in Streams :
        /\ handles[h].comb.closed
        /\ Len(handles[h].comb.got) = 3
        /\ handles[h].comb.got[1].s = s
        /\ handles[h].comb.got[2].s = Other(s)
        /\ handles[h].comb.got[3].s = s
        /\ handles[h].comb.got[1].line # handles[h].comb.got[3].line

-----------------------------------------------------------------------------
(* Claims about Session.CopyTo *)

CopyReturned == copyRes.state = "returned"

CopySucceeded == CopyReturned /\ copyRes.err.kind = "nil"

Contains(sub, s) ==
    \E i \in 0..(Len(s) - Len(sub)) : SubSeq(s, i + 1, i + Len(sub)) = sub

\* The messages the sink answered with ack byte b.
AckedWith(b) == { i \in DOMAIN scpLog : scpLog[i].resp.io = "ok" /\ scpLog[i].resp.ack = b }

\* C5: a response with ack byte 1 (warning) does not fail the transfer:
\* CopyTo never returns the error built from a response whose ack byte was 1.
C5_WarningContinues ==
    CopyReturned /\ copyRes.err.kind = "scp" => Len(scpLog) \notin AckedWith(1)

\* No directory name of the job is changed by Sprintf.
PlainJob ==
    /\ \A n \in job.tree : n.kind = "dir" => Sprintf(LocalName(n.path)) = LocalName(n.path)
    /\ \A i \in DOMAIN job.target : Sprintf(job.target[i]) = job.target[i]

\* Every directory and file the sink acknowledged with 0 is on the remote
\* side, the files with the bytes that were sent.
AckedPresent ==
    \A i \in AckedWith(0) :
        LET e == scpLog[i]
        IN /\ e.msg.op = "D" => IsDir(rfs, e.at)
           /\ e.msg.op = "body" =>
                [path |-> e.at, kind |-> "file", data |-> Content(e.src)] \in rfs

\* After ack byte 2 nothing more is sent and the copy is over.
AbortedAtFatal ==
    \A i \in AckedWith(2) : i = Len(scpLog) /\ copyRes.state \in {"returned", "blocked"}

\* C6: after a response with ack byte 2 nothing more is sent, the error
\* CopyTo returns carries the text of the sink's message, and everything
\* acknowledged with 0 before is still on the remote side.
C6_FatalAborts ==
    /\ AbortedAtFatal
    /\ AckedPresent
    /\ \A i \in AckedWith(2) :
          CopyReturned => /\ copyRes.err.kind = "scp"
                          /\ Contains(TrimSpace(scpLog[i].resp.msg), copyRes.err.text)

\* The parts of C6 that do not depend on the text of the message, for the
\* trees whose directory names Sprintf leaves alone.
C6_AbortNoRollback ==
    /\ AbortedAtFatal
    /\ \A i \in AckedWith(2) : CopyReturned => copyRes.err.kind = "scp"
    /\ PlainJob => AckedPresent

\* What is below the target on the remote side, paths relative to it.
RemoteTree ==
    LET T == Resolve(job.target)
    IN { [path |-> SubSeq(n.path, Len(T) + 1, Len(n.path)), kind |-> n.kind, data |-> n.data] :
            n \in { m \in rfs : IsPrefix(T, m.path) /\ m.path # T } }

LocalTree ==
    { [path |-> n.path, kind |-> n.kind,
       data |-> IF n.kind = "file" THEN Content(n.path) ELSE <<>>] : n \in job.tree }

\* C7: when CopyTo of a directory returns nil (every response had ack byte
\* 0), below the target there are exactly the directories and files of the
\* source, nested alike, the files with the same bytes.
C7_TreeReproduced == CopySucceeded /\ job.root = "dir" => RemoteTree = LocalTree

\* C7 for the trees whose directory names Sprintf leaves alone.
C7_PlainTreeReproduced ==
    CopySucceeded /\ job.root = "dir" /\ PlainJob => RemoteTree = LocalTree

\* C8: the mode field of every file header is "0" and the octal digits of
\* the file's nine permission bits.
C8_ModeFieldIsPermBits ==
    \A i \in DOMAIN scpLog :
        scpLog[i].msg.op = "C" =>
            scpLog[i].msg.mode = <<"0">> \o FormatOct(Mode(scpLog[i].src) % 512)

-----------------------------------------------------------------------------
(* Claims about NewSessionWithRetry *)

Attempts == dial.attempts

\* C9: an attempt that fails with an authentication failure is the last one
\* and its error is returned; a successful attempt is the last one and is
\* returned with a nil error; after any other failure the function gives up
\* only with the deadline passed, and every further attempt takes one tick
\* of the ticker, the first a second after the ticker was made.
C9_RetryUnlessAuth ==
    /\ \A i \in 1..(Len(Attempts) - 1) : Attempts[i].err = "net"
    /\ \A i \in DOMAIN Attempts :
          /\ Attempts[i].err = "auth" =>
                dial.pc = "done" /\ dial.res = [s |-> FALSE, err |-> "auth"]
          /\ Attempts[i].err = "ok" =>
                dial.pc = "done" /\ dial.res = [s |-> TRUE, err |-> "nil"]
          /\ i > 1 => Attempts[i].start >= dial.created + (i - 1)
    /\ dial.pc = "done" /\ Attempts[Len(Attempts)].err = "net" =>
          dial.res = [s |-> FALSE, err |-> "timeout"] /\ dial.now >= dial.deadline
    /\ Len(Attempts) + (IF dial.pc = "dialing" THEN 1 ELSE 0)
          = dial.taken + (IF dial.pc = "idle" THEN 0 ELSE 1)

\* Two attempts failed otherwise, the third with an authentication failure,
\* which was returned.
C9_Witness ==
    /\ Len(Attempts) = 3
    /\ Attempts[3].err = "auth"
    /\ dial.pc = "done"
    /\ dial.res.err = "auth"

-----------------------------------------------------------------------------
(* Claims about Run's writes and the reader's end *)

\* Which of the three writes an error of Run is the failure of, 0 for none.
FailedWrite(err) ==
    CASE err = "write1" -> 1
      [] err = "write2" -> 2
      [] err = "write3" -> 3
      [] OTHER -> 0

ReadersIdle(h) ==
    \A s \in Streams :
        /\ handles[h].rd[s] = IdleReader
        /\ handles[h].ch[s] = <<>>
        /\ ~handles[h].chClosed[s]

\* C11: what Run has written to a shell's stdin is a prefix of the three
\* lines cmd, echo '<marker>', echo '<marker>' >&2; a Run that returned nil
\* wrote all three; a Run whose k-th write failed returned that error and no
\* Cmd, wrote the k-1 lines before it and nothing after, and started no
\* reader; readers run only on a handle that got all three lines.
C11_ThreeWritesOrError ==
    \A i \in DOMAIN runLog :
        LET e == runLog[i] IN
        e.made > 0 =>
            LET hd == handles[e.made]
                L  == StdinLines(hd.cmd, hd.endMark)
            IN /\ IsPrefix(hd.wrote, L)
               /\ e.err = "nil" => hd.wrote = L /\ e.h = e.made
               /\ FailedWrite(e.err) > 0 =>
                     /\ Len(hd.wrote) = FailedWrite(e.err) - 1
                     /\ e.h = 0
                     /\ ~hd.started
                     /\ ReadersIdle(e.made)
               /\ ~ReadersIdle(e.made) => hd.wrote = L /\ hd.started

\* The second write failed after the shell had taken the command.
C11_Witness ==
    \E i \in DOMAIN runLog :
        /\ runLog[i].err = "write2"
        /\ runLog[i].made > 0
        /\ Len(handles[runLog[i].made].wrote) = 1
        /\ handles[runLog[i].made].shell.stdinQ = <<>>

\* The reader returned because its read met the end of the stream.
ReachedEof(h, s) ==
    /\ handles[h].rd[s].exit
    /\ handles[h].streamEnd[s] = "eof"
    /\ handles[h].rd[s].acc # handles[h].endMark

\* The lines of InPipeline that are not the last one.
Earlier(h, s) == SubSeq(InPipeline(h, s), 1, Len(InPipeline(h, s)) - 1)

\* C12: a reader whose read failed has delivered the lines it had read, the
\* last of them the part of a line it had accumulated, then the one line
\* "error reading pipe: <cause>", and closes its channel only after that
\* line; the Run call had returned nil; a reader whose read did not fail
\* delivers no such line, whatever happened on the other stream.
C12_ReadErrorInBand ==
    \A h \in DOMAIN handles : \A s \in Streams :
        handles[h].started =>
            /\ ReadFailed(h, s) =>
                  /\ InPipeline(h, s) = LinesRead(h, s) \o <<ErrorLine>>
                  /\ ~InSeq(ErrorLine, Earlier(h, s))
                  /\ handles[h].rd[s].acc # <<>> =>
                        Earlier(h, s) # <<>>
                        /\ Earlier(h, s)[Len(Earlier(h, s))] = handles[h].rd[s].acc
                  /\ handles[h].chClosed[s] = (handles[h].rd[s].sendQ = <<>>)
                  /\ \E i \in DOMAIN runLog : runLog[i].h = h /\ runLog[i].err = "nil"
            /\ ~ReadFailed(h, s) =>
                  /\ ~InSeq(ErrorLine, InPipeline(h, s))
                  /\ IsPrefix(InPipeline(h, s), LinesRead(h, s))

\* The read of one stream failed after a full buffer without a line end;
\* the caller received those bytes and the error line, and the channel was
\* closed; the other stream ended without a failure.
C12_Witness ==
    \E h \in DOMAIN handles : \E s \in Streams :
        /\ ReadFailed(h, s)
        /\ Len(handles[h].rd[s].acc) = BufSize
        /\ handles[h].gotClosed[s]
        /\ handles[h].got[s] = <<handles[h].rd[s].acc, ErrorLine>>
        /\ ReachedEof(h, Other(s))
        /\ handles[h].gotClosed[Other(s)]

\* C13: a reader that met the end of the stream before the marker has
\* returned and closed its channel, and what it delivered are the lines it
\* had read in full: no empty line and no error line after them.
C13_EofClosesSilently ==
    \A h \in DOMAIN handles : \A s \in Streams :
        handles[h].started /\ ReachedEof(h, s) =>
            /\ handles[h].rd[s].done
            /\ handles[h].rd[s].sendQ = <<>>
            /\ handles[h].chClosed[s]
            /\ ~InSeq(ErrorLine, InPipeline(h, s))
            /\ InPipeline(h, s) \o (IF handles[h].rd[s].acc # <<>>
                                     THEN <<handles[h].rd[s].acc>> ELSE <<>>)
                  = LinesRead(h, s)

\* The stream ended after one line; the caller received that line and then
\* the close.
C13_Witness ==
    \E h \in DOMAIN handles : \E s \in Streams :
        /\ ReachedEof(h, s)
        /\ handles[h].gotClosed[s]
        /\ Len(handles[h].got[s]) = 1

-----------------------------------------------------------------------------
(* Claims about the sinks of CopyTo *)

\* The sink CopyTo sent its last message to.
LastSink == scpLog[Len(scpLog)].h

\* CopyTo returned the error of a message sent by copyPathTo (sink 1 is the
\* one CopyTo itself opens).
FailedInCopyPathTo ==
    /\ CopyReturned
    /\ copyRes.err.kind \in {"scp", "io"}
    /\ LastSink > 1

\* C14 as stated: when a child-file push or a D or E line of copyPathTo
\* fails, the sink of that level is open when the error is returned.
C14_OpenAfterFailure == FailedInCopyPathTo => sinks[LastSink].open

\* C14, amended: while a copyPathTo call is running its sink is open until
\* the success flag is set, which is after every child-file push and every
\* D and E line of the level was acknowledged; when one of them fails the
\* deferred function closes the sink before the error is returned, so no
\* sink opened by copyPathTo is open after CopyTo returned.
C14_ClosedOnSuccessAndFailure ==
    /\ \A f \in DOMAIN stack :
          stack[f].defer =>
              /\ sinks[stack[f].h].open = ~stack[f].success
              /\ stack[f].success =>
                    \A k \in DOMAIN stack[f].ops : stack[f].ops[k].op = "call"
    /\ copyRes.state \in {"returned", "panic"} =>
          \A h \in 2..Len(sinks) : ~sinks[h].open

\* A level's first push was acknowledged, a later one failed, and the error
\* was returned with the sink closed.
C14_Witness ==
    /\ FailedInCopyPathTo
    /\ ~sinks[LastSink].open
    /\ \E i \in AckedWith(0) : scpLog[i].h = LastSink

-----------------------------------------------------------------------------
(* Claims about the caller that reads stdout before stderr *)

\* The stderr reader is blocked sending to its full channel, the command is
\* blocked writing to the full transport with the two echo lines of the
\* marker still unread by the shell, and the caller waits on the empty
\* stdout channel: nothing can move.
Stalled(h) ==
    LET hd == handles[h] IN
    /\ hd.started
    /\ hd.shell.alive
    /\ Len(hd.shell.stdinQ) = 2
    /\ hd.shell.cur # <<>>
    /\ ~HasRoom(hd, Head(hd.shell.cur).data)
    /\ hd.rd["err"].sendQ # <<>>
    /\ ~CanSend(hd.ch["err"])
    /\ hd.stream["out"] = <<>>
    /\ hd.ch["out"] = <<>>
    /\ ~hd.chClosed["out"]
    /\ ~hd.gotClosed["out"]

\* C15: with a caller that reads stdout to its close before it reads
\* stderr, a stderr reader blocked on its full channel never keeps the
\* stdout marker from being written and read.
C15_StderrNeverStallsStdout == \A h \in DOMAIN handles : ~Stalled(h)

\* The non-empty segments of the target.
Segments == SelectSeq(job.target, LAMBDA part : part # <<>>)

\* The D line of a directory named nm, as the protocol has it.
DirLineOf(nm) == [op |-> "D", mode |-> <<"0", "7", "5", "5">>, size |-> 0, name |-> nm]

\* The messages to sink 1, the one CopyTo opens, are the first 2k of all, k
\* D lines then k E lines; render(segment) is the name in the i-th D line.
PreMaterialized(render(_)) ==
    LET k == Len(Segments) IN
    /\ sinks # <<>> => sinks[1].cwd[1] = (IF IsAbs(job.target) THEN <<"/">> ELSE <<".">>)
    /\ \A i \in DOMAIN scpLog :
          /\ scpLog[i].h = 1 <=> i <= 2 * k
          /\ i <= k => scpLog[i].msg = DirLineOf(render(Segments[i]))
          /\ (i > k /\ i <= 2 * k) => scpLog[i].msg.op = "E"
          /\ i < Len(scpLog) => Accepted(scpLog[i].resp)
          /\ scpLog[i].msg.op = "C" => ~sinks[1].open
    /\ Len(sinks) >= 2 => ~sinks[1].open /\ Len(scpLog) >= 2 * k

AsIs(nm) == nm

\* C16: CopyTo opens its first sink at "/" or ".", sends it a D line for
\* each of the k segments of the target, in order and named as the segment,
\* then k E lines, each after the line before was acknowledged, and closes
\* it before it opens another sink and before any file header.
C16_PreMaterialization == PreMaterialized(AsIs)

\* C16 with the names as Sprintf leaves them.
C16_PreMaterializationOrder == PreMaterialized(Sprintf)

\* The places in scpLog of the messages to sink h with one of the ops.
SentTo(h, ops) == { i \in DOMAIN scpLog : scpLog[i].h = h /\ scpLog[i].msg.op \in ops }

\* The local paths of those messages, in the order sent.
SrcsSent(h, ops) ==
    LET picked == SelectSeq(scpLog, LAMBDA e : e.h = h /\ e.msg.op \in ops)
    IN [i \in DOMAIN picked |-> picked[i].src]

\* The level of sink h is over: a later sink was opened or CopyTo returned nil.
LevelDone(h) == h < Len(sinks) \/ CopySucceeded

PathsOf(p, names) == [i \in DOMAIN names |-> Append(p, names[i])]

\* C17: the messages go to the sinks in the order the sinks were opened and
\* every sink but the last opened is closed; to the sink of a directory
\* level first the child files go, then for each child directory a D line
\* with the E line right after it; a finished level has pushed every child
\* file and every child directory; and the sink of a child directory is
\* opened only with its D and E line acknowledged in the sink of its parent
\* and that sink closed.
C17_LevelOrder ==
    /\ \A h \in 1..(Len(sinks) - 1) : ~sinks[h].open
    /\ \A i, j \in DOMAIN scpLog : i < j => scpLog[i].h <= scpLog[j].h
    /\ \A h \in 2..Len(sinks) :
          /\ \A i \in SentTo(h, {"D", "E"}) : \A j \in SentTo(h, {"C", "body"}) : j < i
          /\ \A i \in SentTo(h, {"D"}) : i < Len(scpLog) => i + 1 \in SentTo(h, {"E"})
          /\ \A i \in SentTo(h, {"E"}) : i - 1 \in SentTo(h, {"D"})
          /\ (LevelDone(h) /\ Stat(sinks[h].src) = "dir") =>
                /\ SrcsSent(h, {"C"}) = PathsOf(sinks[h].src, Children(sinks[h].src, "file"))
                /\ SrcsSent(h, {"body"}) = SrcsSent(h, {"C"})
                /\ SrcsSent(h, {"D"}) = PathsOf(sinks[h].src, Children(sinks[h].src, "dir"))
          /\ h > 2 =>
                \E g \in 2..(h - 1) : \E i \in SentTo(g, {"D"}) :
                    /\ scpLog[i].src = sinks[h].src
                    /\ sinks[g].src = SubSeq(sinks[h].src, 1, Len(sinks[h].src) - 1)
                    /\ Accepted(scpLog[i].resp)
                    /\ Accepted(scpLog[i + 1].resp)
                    /\ ~sinks[g].open

\* CopyTo returned nil for a directory with a file and a directory that
\* holds a directory.
C17_Witness ==
    /\ CopySucceeded
    /\ Len(sinks) = 4
    /\ \E n \in job.tree : n.kind = "file" /\ Len(n.path) = 1
    /\ \E n \in job.tree : n.kind = "dir" /\ Len(n.path) = 2

C19_NoOpenChannelOnError ==
    \A i \in DOMAIN runLog :
        LET e == runLog[i] IN
        e.err \in HandleOutcomes =>
            /\ e.h = 0
            /\ e.err = "NewSession" => e.made = 0
            /\ e.err # "NewSession" =>
                  /\ e.made > 0
                  /\ ~handles[e.made].open
                  /\ ~handles[e.made].started
                  /\ handles[e.made].wrote = <<>>

\* A Run failed at the start of the command, after the channel and the three
\* pipes were opened.
C19_Witness ==
    \E i \in DOMAIN runLog :
        /\ runLog[i].err = "Start"
        /\ runLog[i].made > 0
        /\ ~handles[runLog[i].made].open

\* C20: no NewSession call starts after the deadline has passed.
C20_NoDialAfterDeadline ==
    /\ \A i \in DOMAIN Attempts : Attempts[i].start <= dial.deadline
    /\ dial.pc = "dialing" => dial.started <= dial.deadline

\* With the timeout timer and a tick both ready, select takes either; taking
\* the timeout whenever it is ready, the calls that fail otherwise end in the
\* timeout error and a nil session.
SpecRetryFair == SpecRetry /\ WF_vars(NextRetry) /\ SF_vars(Timeout)

C20_EventuallyTimesOut ==
    (dial.to > 0) ~>
        (dial.pc = "done" /\
            (Attempts[Len(Attempts)].err = "net" =>
                dial.res = [s |-> FALSE, err |-> "timeout"]))

-----------------------------------------------------------------------------
(* Claims about the handles left behind *)

\* C21: when CopyTo has returned an error, every sink it opened is closed.
C21_CopyToClosesOnError ==
    (CopyReturned /\ copyRes.err.kind # "nil") =>
        \A h \in DOMAIN sinks : ~sinks[h].open

\* C21, for Run: when Run has returned an error, the handle it opened is
\* closed.
C21_RunClosesOnError ==
    \A i \in DOMAIN runLog :
        (runLog[i].err # "nil" /\ runLog[i].made > 0) => ~handles[runLog[i].made].open

-----------------------------------------------------------------------------
(* Claims about the calls that do not return *)

\* C22: CopyTo is never inside a handleScpResp that waits for a second line
\* the sink does not send.
C22_NeverBlocksOnSecondLine == copyRes.state # "blocked"

\* What CopyTo sends for a source os.Stat fails on: the D and E lines of the
\* target, to the one sink CopyTo itself opens, and nothing else.
C23_NothingSentForMissing ==
    job.root = "missing" =>
        \A i \in DOMAIN scpLog : scpLog[i].h = 1 /\ scpLog[i].msg.op \in {"D", "E"}

\* C23: CopyTo of a source os.Stat fails on does not panic; it sends nothing
\* for the source, and when it is over it has returned an error.
C23_MissingSourceReturnsError ==
    job.root = "missing" =>
        /\ copyRes.state # "panic"
        /\ C23_NothingSentForMissing
        /\ CopyReturned => copyRes.err.kind # "nil"

-----------------------------------------------------------------------------
(* Claims about the number of open sinks *)

OpenSinks == { h \in DOMAIN sinks : sinks[h].open }

\* C24: of the sinks a CopyTo call has opened, only the one opened last can
\* be open, so every sink was closed before the next one was opened and at
\* most one is open, while the call runs, after it returned nil or an error,
\* while it is blocked and after it panicked.
C24_AtMostOneSinkOpen ==
    /\ OpenSinks \subseteq {Len(sinks)}
    /\ Cardinality(OpenSinks) <= 1

\* The sink of a directory two levels below the source is open with a file
\* pushed into it, after the sinks of the target and of the two levels above
\* were opened and closed.
C24_Witness ==
    /\ copyRes.state = "running"
    /\ Len(sinks) = 4
    /\ OpenSinks = {4}
    /\ Len(sinks[4].src) = 2
    /\ \E i \in AckedWith(0) : scpLog[i].h = 4 /\ scpLog[i].msg.op = "body"

====
